---- MODULE Spec2Model ----
(***************************************************************************)
(* Birdman: the tick-driven simulation of tsujio/game-birdman.             *)
(* Game.Update is modelled one switch case per action; Game.initialize     *)
(* and the steps of the Flying tick are operators.  The sounds played and  *)
(* the telemetry logged by the last operation are kept in `played` and     *)
(* `logged`; `pre` is a history variable holding the Game as it was when   *)
(* the last operation began, and the tap input it was given; `spawned` is  *)
(* a history variable counting the birds appended since initialize;        *)
(* `flapping` is the environment: whether the player will ever tap again.   *)
(***************************************************************************)
EXTENDS Integers, Sequences, FiniteSets, TLC

VARIABLES initializeCount, mode, birdman, birds, cameraX, cameraY,
          played, logged, pre, spawned, flapping

game == <<initializeCount, mode, birdman, birds, cameraX, cameraY>>
vars == <<initializeCount, mode, birdman, birds, cameraX, cameraY, played, logged, pre,
          spawned, flapping>>

(* ---------------- program constants ---------------- *)
screenWidth == 640
screenHeight == 480
birdWidth == 100
birdmanAndBirdCollisionRadius == 50
initialBirdmanPosY == screenHeight \div 3
MaxTPS == 60

ModeTitle == "ModeTitle"
ModeGame == "ModeGame"
ModeGameOver == "ModeGameOver"
StateRunning == "StateRunning"
StateFlying == "StateFlying"
StateDamaged == "StateDamaged"

(* ---------------- bounds of the model ---------------- *)
\* initialize() is run at most this many times (main, then restarts)
MaxInitializeCount == 2
\* a run is followed until birdman.x reaches this
MaxX == 420
\* a flight resumed at one of BandStarts is followed for this many units of x
MaxBandX == 40
\* the world-X at which the resumed flights begin: ten units before the
\* impulse table of the User input step changes
BandStarts == {990, 1990, 2990, 3990}
\* a flight resumed as a bird comes level is followed while birdman.x is
\* within this distance of the place where they meet
MaxNearX == 30
\* and begins at rest at a height of at most this
MaxNearY == 100
\* the world-X at which the flight resumed to see two more birds appear begins,
\* and the distance over which it is followed
FlockStarts == {590}
MaxFlockX == 215
\* the distance over which a player that has stopped flapping is followed
MaxFallX == 250
\* the values of rand.Int() that are explored: the lowest and the highest bird
RandInts == {0, 379}
\* the player that is explored: while rising it flaps on every tick when it
\* is above BurstY or has been damaged, and glides otherwise; at rest it flaps
\* as it likes above BurstY; falling it flaps as it likes at full speed below HopY
BurstY == 161
HopY == 470

(* ---------------- Go integer arithmetic ---------------- *)
\* Go's / truncates toward zero
GoDiv(a, b) == IF a >= 0 THEN a \div b ELSE -((-a) \div b)
\* Go's % has the sign of the dividend
GoRem(a, b) == a - b * GoDiv(a, b)

(* ---------------- the Game as a record ---------------- *)
G == [initializeCount |-> initializeCount, mode |-> mode, birdman |-> birdman,
      birds |-> birds, cameraX |-> cameraX, cameraY |-> cameraY]

\* &Game{playID: playID, initializeCount: 0}: every other field has its zero value
NewGame == [initializeCount |-> 0, mode |-> ModeTitle,
            birdman |-> [state |-> StateRunning, x |-> 0, y |-> 0, vy |-> 0,
                         damagedCount |-> 0, damagedTicks |-> 0],
            birds |-> <<>>, cameraX |-> 0, cameraY |-> 0]

\* initialize without g.birds = nil
initializeKeepBirds(g) ==
    [initializeCount |-> g.initializeCount + 1,
     mode |-> ModeTitle,
     cameraX |-> -100,
     cameraY |-> 0,
     birdman |-> [state |-> StateRunning, x |-> -60, y |-> initialBirdmanPosY, vy |-> 0,
                  damagedCount |-> 0, damagedTicks |-> 0],
     birds |-> g.birds]

initialize(g) ==
    [initializeCount |-> g.initializeCount + 1,
     mode |-> ModeTitle,
     cameraX |-> -100,
     cameraY |-> 0,
     birdman |-> [state |-> StateRunning, x |-> -60, y |-> initialBirdmanPosY, vy |-> 0,
                  damagedCount |-> 0, damagedTicks |-> 0],
     birds |-> <<>>]

LogInitialize(g) == [action |-> "initialize", x |-> 0, damaged_count |-> 0, count |-> g.initializeCount]
LogStartGame == [action |-> "start_game", x |-> 0, damaged_count |-> 0, count |-> 0]
\* LogGameOver with the X the birdman had before Birdman move
LogGameOverStaleX(b) == [action |-> "game_over", x |-> b.x - 1, damaged_count |-> b.damagedCount, count |-> 0]
LogGameOver(b) == [action |-> "game_over", x |-> b.x, damaged_count |-> b.damagedCount, count |-> 0]

SetGame(g) ==
    /\ initializeCount' = g.initializeCount
    /\ mode' = g.mode
    /\ birdman' = g.birdman
    /\ birds' = g.birds
    /\ cameraX' = g.cameraX
    /\ cameraY' = g.cameraY

Snapshot(tapped) == [op |-> "Update", tapped |-> tapped, g |-> G]

(* ---------------- steps of the Flying tick ---------------- *)
\* BirdsAppearance with the new bird put in front of the others
BirdsAppearanceInFront(bs, bx, r) ==
    IF GoRem(bx, 200) = 0
    THEN <<[x |-> bx + screenWidth, y |-> 50 + GoRem(r, screenHeight - 100)]>> \o bs
    ELSE bs

\* BirdsAppearance tested on the X the birdman has after Birdman move
BirdsAppearanceAfterMove(bs, bx, r) ==
    IF GoRem(bx + 1, 200) = 0
    THEN Append(bs, [x |-> bx + screenWidth, y |-> 50 + GoRem(r, screenHeight - 100)])
    ELSE bs

\* Birds appearance
BirdsAppearance(bs, bx, r) ==
    IF GoRem(bx, 200) = 0
    THEN Append(bs, [x |-> bx + screenWidth, y |-> 50 + GoRem(r, screenHeight - 100)])
    ELSE bs

\* every bird drifts by one
BirdsDrift(bs) == [i \in 1..Len(bs) |-> [bs[i] EXCEPT !.x = @ - 1]]

Visible(b, cx) == b.x + birdWidth > cx

\* BirdsMove with newBirds never assigned back to g.birds
BirdsMoveKeepAll(bs, cx) == BirdsDrift(bs)

\* Birds move (Flying): drift, keep the birds still ahead of the camera
BirdsMove(bs, cx) == SelectSeq(BirdsDrift(bs), LAMBDA b : Visible(b, cx))

\* User input: the impulse ay of a tap
BaseImpulse(bx) ==
    IF bx < 1000 THEN -20
    ELSE IF bx < 2000 THEN -15
    ELSE IF bx < 3000 THEN -10
    ELSE IF bx < 4000 THEN -7
    ELSE -5

\* FlapImpulse without the division by damagedCount + 1
FlapImpulseUnscaled(bx, dc) == BaseImpulse(bx)

\* FlapImpulse with a division that rounds toward minus infinity
FlapImpulseFloor(bx, dc) == BaseImpulse(bx) \div (dc + 1)

FlapImpulse(bx, dc) == GoDiv(BaseImpulse(bx), dc + 1)

\* Gravity without the cap
GravityNoCap(v) == v + 1

\* Birdman gravity
Gravity(v) == IF v + 1 > 5 THEN 5 ELSE v + 1

\* Birdman too high
TooHigh(py) == py < 0

\* Collides with the radius taken once for each of the two sprites
CollidesSumOfRadii(px, py, b) ==
    (px - b.x) * (px - b.x) + (py - b.y) * (py - b.y)
        < (2 * birdmanAndBirdCollisionRadius) * (2 * birdmanAndBirdCollisionRadius)

\* Collides with a bird at exactly the radius taken as a hit
CollidesTouching(px, py, b) ==
    (px - b.x) * (px - b.x) + (py - b.y) * (py - b.y)
        <= birdmanAndBirdCollisionRadius * birdmanAndBirdCollisionRadius

\* Birdman and birds collision: the test of one bird
Collides(px, py, b) ==
    (px - b.x) * (px - b.x) + (py - b.y) * (py - b.y)
        < birdmanAndBirdCollisionRadius * birdmanAndBirdCollisionRadius

\* the number of damages the collision loop applies: it breaks at the first hit
CollisionDamages(px, py, bs) ==
    IF \E i \in 1..Len(bs) : Collides(px, py, bs[i]) THEN 1 ELSE 0

\* Fallen with the test of Birdman fall left out
FallenNever(py) == FALSE

\* Fallen with the floor itself taken as below the screen
FallenAtFloor(py) == py >= screenHeight

\* Birdman fall
Fallen(py) == py > screenHeight

\* DamagedMove with the X of Birdman move of the Flying case
DamagedMoveForward(b) == [b EXCEPT !.damagedTicks = @ + 1, !.vy = 0, !.y = @ + 1, !.x = @ + 1]

\* DamagedMove with Birdman gravity in place of birdman.vy = 0
DamagedMoveGravity(b) ==
    [b EXCEPT !.damagedTicks = @ + 1, !.vy = Gravity(@), !.y = @ + Gravity(b.vy)]

\* DamagedMove with the test of Birdman too high made in Damaged as well
DamagedMoveTooHigh(b) ==
    [b EXCEPT !.damagedTicks = @ + 1, !.vy = 0, !.y = @ + 1,
              !.damagedCount = IF TooHigh(b.y + 1) THEN @ + 1 ELSE @]

\* Damaged: the birdman after Birdman move, before the timeout test
DamagedMove(b) == [b EXCEPT !.damagedTicks = @ + 1, !.vy = 0, !.y = @ + 1]

\* DamagedTimeout one tick late
DamagedTimeoutLate(ticks) == GoRem(ticks, MaxTPS + 1) = 0

\* DamagedTimeout one tick early
DamagedTimeoutEarly(ticks) == GoRem(ticks + 1, MaxTPS) = 0

\* Damaged: one second of ticks has passed
DamagedTimeout(ticks) == GoRem(ticks, MaxTPS) = 0

(* ---------------- the inputs that are explored ---------------- *)
\* isJustTapped(): never again once the player has stopped flapping; until
\* then either value in every mode and sub-state but Flying,
\* where the taps are those of the player described at BurstY and HopY
TapInputs ==
    IF ~flapping THEN {FALSE}
    ELSE IF mode = ModeGame /\ birdman.state = StateFlying
    THEN IF birdman.vy < 0 THEN {birdman.y < BurstY \/ birdman.damagedCount > 0}
         ELSE IF birdman.vy = 0 THEN (IF birdman.y < BurstY THEN BOOLEAN ELSE {FALSE})
         ELSE IF birdman.y >= HopY /\ birdman.vy = 5 THEN BOOLEAN
         ELSE {FALSE}
    ELSE BOOLEAN

\* the world-X at which Flying ticks are still explored
\* the world-X at which an undamaged flight is level with the bird that
\* appeared at 200: the bird is at 200 + screenWidth - (x - 200)
BirdLevelX == 200 + screenWidth \div 2

Explored(bx) ==
    \/ bx < MaxX
    \/ \E s \in BandStarts : s <= bx /\ bx < s + MaxBandX
    \/ \E s \in FlockStarts : s <= bx /\ bx < s + MaxFlockX
    \/ BirdLevelX - MaxNearX <= bx /\ bx <= BirdLevelX + MaxNearX

\* the world-X at which the Flying ticks of a player that has stopped flapping
\* are followed: from where the flights that are explored begin
FallStarts == {0} \cup BandStarts \cup {BirdLevelX - MaxNearX}
Falling(bx) == \E s \in FallStarts : s <= bx /\ bx < s + MaxFallX

(* ---------------- Init: main() ---------------- *)
Init ==
    LET g == initialize(NewGame) IN
    /\ initializeCount = g.initializeCount
    /\ mode = g.mode
    /\ birdman = g.birdman
    /\ birds = g.birds
    /\ cameraX = g.cameraX
    /\ cameraY = g.cameraY
    /\ played = <<>>
    /\ logged = <<LogInitialize(g)>>
    /\ pre = [op |-> "main", tapped |-> FALSE, g |-> NewGame]
    /\ spawned = 0
    /\ flapping = TRUE

(* ---------------- Game.Update, one switch case per action ---------------- *)
\* UpdateTitle with the first Running step taken in the tick of the tap
UpdateTitleAndRun ==
    /\ mode = ModeTitle
    /\ \E tapped \in TapInputs :
        /\ pre' = Snapshot(tapped)
        /\ mode' = IF tapped THEN ModeGame ELSE mode
        /\ birdman' = IF tapped THEN [birdman EXCEPT !.x = @ + 1] ELSE birdman
        /\ logged' = IF tapped THEN <<LogStartGame>> ELSE <<>>
        /\ played' = <<>>
        /\ UNCHANGED <<initializeCount, birds, cameraX, cameraY, spawned, flapping>>

\* UpdateTitle with the start_game event sent in every Title tick
UpdateTitleLogAlways ==
    /\ mode = ModeTitle
    /\ \E tapped \in TapInputs :
        /\ pre' = Snapshot(tapped)
        /\ mode' = IF tapped THEN ModeGame ELSE mode
        /\ logged' = <<LogStartGame>>
        /\ played' = <<>>
        /\ UNCHANGED <<initializeCount, birdman, birds, cameraX, cameraY, spawned, flapping>>

UpdateTitle ==
    /\ mode = ModeTitle
    /\ \E tapped \in TapInputs :
        /\ pre' = Snapshot(tapped)
        /\ mode' = IF tapped THEN ModeGame ELSE mode
        /\ logged' = IF tapped THEN <<LogStartGame>> ELSE <<>>
        /\ played' = <<>>
        /\ UNCHANGED <<initializeCount, birdman, birds, cameraX, cameraY, spawned, flapping>>

\* UpdateRunning with the cliff's edge tested as birdman.x > 0
UpdateRunningPastEdge ==
    /\ mode = ModeGame
    /\ birdman.state = StateRunning
    /\ \E tapped \in TapInputs :
        /\ pre' = Snapshot(tapped)
        /\ birdman' = [birdman EXCEPT !.x = @ + 1,
                                      !.state = IF birdman.x + 1 > 0 THEN StateFlying ELSE @]
        /\ played' = <<>>
        /\ logged' = <<>>
        /\ UNCHANGED <<initializeCount, mode, birds, cameraX, cameraY, spawned, flapping>>

\* UpdateRunning with Camera move made in the Running case as well
UpdateRunningCameraMove ==
    /\ mode = ModeGame
    /\ birdman.state = StateRunning
    /\ \E tapped \in TapInputs :
        /\ pre' = Snapshot(tapped)
        /\ cameraX' = cameraX + 1
        /\ birdman' = [birdman EXCEPT !.x = @ + 1,
                                      !.state = IF birdman.x + 1 >= 0 THEN StateFlying ELSE @]
        /\ played' = <<>>
        /\ logged' = <<>>
        /\ UNCHANGED <<initializeCount, mode, birds, cameraY, spawned, flapping>>

UpdateRunning ==
    /\ mode = ModeGame
    /\ birdman.state = StateRunning
    /\ \E tapped \in TapInputs :
        /\ pre' = Snapshot(tapped)
        /\ birdman' = [birdman EXCEPT !.x = @ + 1,
                                      !.state = IF birdman.x + 1 >= 0 THEN StateFlying ELSE @]
        /\ played' = <<>>
        /\ logged' = <<>>
        /\ UNCHANGED <<initializeCount, mode, birds, cameraX, cameraY, spawned, flapping>>

UpdateFlying ==
    /\ mode = ModeGame
    /\ birdman.state = StateFlying
    /\ Explored(birdman.x) \/ (~flapping /\ Falling(birdman.x))
    /\ \E tapped \in TapInputs, r \in RandInts :
        LET cx == cameraX + 1
            bs == BirdsMove(BirdsAppearance(birds, birdman.x, r), cx)
            ay == IF tapped THEN FlapImpulse(birdman.x, birdman.damagedCount) ELSE 0
            v  == Gravity(birdman.vy + ay)
            px == birdman.x + 1
            py == birdman.y + v
            high == IF TooHigh(py) THEN 1 ELSE 0
            hits == CollisionDamages(px, py, bs)
            b1 == [birdman EXCEPT !.x = px, !.y = py, !.vy = v,
                                  !.damagedCount = @ + high + hits,
                                  !.state = IF high + hits > 0 THEN StateDamaged ELSE @]
        IN
        /\ pre' = Snapshot(tapped)
        /\ cameraX' = cx
        /\ birds' = bs
        /\ birdman' = b1
        /\ mode' = IF Fallen(py) THEN ModeGameOver ELSE mode
        /\ played' = (IF tapped THEN <<"flyingAudioData">> ELSE <<>>)
                     \o [i \in 1..(high + hits) |-> "damageAudioData"]
                     \o (IF Fallen(py) THEN <<"gameOverAudioData">> ELSE <<>>)
        /\ logged' = IF Fallen(py) THEN <<LogGameOver(b1)>> ELSE <<>>
        /\ spawned' = spawned + Len(BirdsAppearance(birds, birdman.x, r)) - Len(birds)
        /\ UNCHANGED <<initializeCount, cameraY, flapping>>

UpdateDamaged ==
    /\ mode = ModeGame
    /\ birdman.state = StateDamaged
    /\ \E tapped \in TapInputs :
        LET b1 == DamagedMove(birdman)
            py == b1.y
            b2 == IF DamagedTimeout(b1.damagedTicks)
                  THEN [b1 EXCEPT !.damagedTicks = 0, !.state = StateFlying]
                  ELSE b1
        IN
        /\ pre' = Snapshot(tapped)
        /\ birds' = BirdsDrift(birds)
        /\ birdman' = b2
        /\ mode' = IF Fallen(py) THEN ModeGameOver ELSE mode
        /\ played' = IF Fallen(py) THEN <<"gameOverAudioData">> ELSE <<>>
        /\ logged' = IF Fallen(py) THEN <<LogGameOver(b1)>> ELSE <<>>
        /\ UNCHANGED <<initializeCount, cameraX, cameraY, spawned, flapping>>

UpdateGameOver ==
    /\ mode = ModeGameOver
    /\ \E tapped \in TapInputs :
        /\ tapped => initializeCount < MaxInitializeCount
        /\ pre' = Snapshot(tapped)
        /\ IF tapped
           THEN /\ SetGame(initialize(G))
                /\ spawned' = 0
                /\ logged' = <<LogInitialize(initialize(G))>>
           ELSE /\ UNCHANGED game
                /\ UNCHANGED spawned
                /\ logged' = <<>>
        /\ played' = <<>>
        /\ UNCHANGED flapping

Next ==
    \/ UpdateTitle
    \/ UpdateRunning
    \/ UpdateFlying
    \/ UpdateDamaged
    \/ UpdateGameOver

Spec == Init /\ [][Next]_vars

(* ---------------- flights resumed at the later distance bands ---------------- *)
\* the birds of an undamaged flight that has reached world-X bx: those that
\* appeared at the multiples s of 200 and are still ahead of the camera,
\* every one at the highest Y
BirdsAt(bx) ==
    LET Appeared == {s \in 0..(bx - 1) : GoRem(s, 200) = 0 /\ 2 * s + screenWidth - bx + birdWidth > bx - 100}
        Bird(s) == [x |-> 2 * s + screenWidth - bx, y |-> 50 + 379]
        RECURSIVE InOrder(_)
        InOrder(S) == IF S = {} THEN <<>>
                      ELSE LET m == CHOOSE m \in S : \A n \in S : m <= n
                           IN <<Bird(m)>> \o InOrder(S \ {m})
    IN InOrder(Appeared)

\* an undamaged flight at world-X bx, level at the height of the cliff
ResumedFlight(bx) ==
    [initializeCount |-> MaxInitializeCount,
     mode |-> ModeGame,
     cameraX |-> bx - 100,
     cameraY |-> 0,
     birdman |-> [state |-> StateFlying, x |-> bx, y |-> initialBirdmanPosY, vy |-> 0,
                  damagedCount |-> 0, damagedTicks |-> 0],
     birds |-> BirdsAt(bx)]

\* the birds that have appeared in a flight that has reached world-X bx
SpawnedAt(bx) == Cardinality({s \in 0..(bx - 1) : GoRem(s, 200) = 0})

InitBands ==
    \E s \in BandStarts :
    LET g == ResumedFlight(s) IN
    /\ initializeCount = g.initializeCount
    /\ mode = g.mode
    /\ birdman = g.birdman
    /\ birds = g.birds
    /\ cameraX = g.cameraX
    /\ cameraY = g.cameraY
    /\ played = <<>>
    /\ logged = <<>>
    /\ pre = [op |-> "resume", tapped |-> FALSE, g |-> g]
    /\ spawned = SpawnedAt(s)
    /\ flapping = TRUE

NextBands ==
    \/ UpdateFlying
    \/ UpdateDamaged

SpecBands == InitBands /\ [][NextBands]_vars

(* ---------------- flights resumed as a bird comes level ---------------- *)
\* an undamaged flight is at rest (vy = 0) at the even multiples of 5 when
\* birdman.x is even and at the odd ones when it is odd: it leaves the cliff
\* at rest at 160 with x = 0, and from then on every tick adds 1 to x and
\* either 1 or 1 - 20 to vy, until the cap of Gravity sets vy to 5
RestYs(bx) == {py \in 0..MaxNearY : GoRem(py, 10) = 5 * GoRem(bx, 2)}

\* the flight at rest at height py with the bird that appeared at 200 at
\* the height drawn as r
NearFlight(bx, py, r) ==
    LET g == ResumedFlight(bx) IN
    [g EXCEPT !.birdman.y = py, !.birds[1].y = 50 + r]

InitNear ==
    \E bx \in (BirdLevelX - MaxNearX)..(BirdLevelX + MaxNearX) :
    \E py \in RestYs(bx), r \in RandInts :
    LET g == NearFlight(bx, py, r) IN
    \* no bird has reached the birdman yet, whatever its way to (bx, py) was
    /\ \A i \in 1..Len(g.birds) : g.birds[i].x - bx >= birdmanAndBirdCollisionRadius
    /\ initializeCount = g.initializeCount
    /\ mode = g.mode
    /\ birdman = g.birdman
    /\ birds = g.birds
    /\ cameraX = g.cameraX
    /\ cameraY = g.cameraY
    /\ played = <<>>
    /\ logged = <<>>
    /\ pre = [op |-> "resume", tapped |-> FALSE, g |-> g]
    /\ spawned = SpawnedAt(bx)
    /\ flapping = TRUE

NextNear ==
    \/ UpdateFlying
    \/ UpdateDamaged

SpecNear == InitNear /\ [][NextNear]_vars

(* ---------------- a flight resumed to see two more birds appear ---------------- *)
InitFlock ==
    \E s \in FlockStarts :
    LET g == ResumedFlight(s) IN
    /\ initializeCount = g.initializeCount
    /\ mode = g.mode
    /\ birdman = g.birdman
    /\ birds = g.birds
    /\ cameraX = g.cameraX
    /\ cameraY = g.cameraY
    /\ played = <<>>
    /\ logged = <<>>
    /\ pre = [op |-> "resume", tapped |-> FALSE, g |-> g]
    /\ spawned = SpawnedAt(s)
    /\ flapping = TRUE

NextFlock ==
    \/ UpdateFlying
    \/ UpdateDamaged

SpecFlock == InitFlock /\ [][NextFlock]_vars

(* ---------------- the player that stops flapping ---------------- *)
\* the player decides, in mode Playing, never to tap again
StopFlapping ==
    /\ flapping
    /\ mode = ModeGame
    /\ flapping' = FALSE
    /\ UNCHANGED <<game, played, logged, pre, spawned>>

\* the run just started by the tap in Title
StartedRun == [initialize(NewGame) EXCEPT !.mode = ModeGame]

\* a run that has just started and is never tapped again, a flight resumed
\* at a later band that is flapped for a while, or a flight resumed at rest
\* under the ceiling, as a bird comes level, that is never tapped again
InitFall ==
    \E g \in {StartedRun}
             \cup {ResumedFlight(s) : s \in BandStarts}
             \cup {NearFlight(bx, py, r) :
                       bx \in (BirdLevelX - MaxNearX)..(BirdLevelX + MaxNearX),
                       py \in 0..MaxNearY, r \in RandInts} :
    /\ g.birdman.state = StateFlying /\ g.birdman.x < 990 =>
          /\ g.birdman.y \in RestYs(g.birdman.x)
          /\ \A i \in 1..Len(g.birds) :
                g.birds[i].x - g.birdman.x >= birdmanAndBirdCollisionRadius
    /\ initializeCount = g.initializeCount
    /\ mode = g.mode
    /\ birdman = g.birdman
    /\ birds = g.birds
    /\ cameraX = g.cameraX
    /\ cameraY = g.cameraY
    /\ played = <<>>
    /\ logged = <<>>
    /\ pre = [op |-> "resume", tapped |-> FALSE, g |-> g]
    /\ spawned = SpawnedAt(g.birdman.x)
    /\ flapping = (g.birdman.x >= 990)

\* Update is called on every tick of the game loop
Tick ==
    \/ UpdateRunning
    \/ UpdateFlying
    \/ UpdateDamaged

NextFall ==
    \/ Tick
    \/ StopFlapping

SpecFall == InitFall /\ [][NextFall]_vars /\ WF_vars(Tick)

(* ======================= the claims ======================= *)
\* the last step was a call of Update
Ticked == pre.op = "Update"
\* the Game and the birdman when that call began
p == pre.g
pb == pre.g.birdman
\* the call began in mode Playing and the given sub-state
Began(st) == Ticked /\ p.mode = ModeGame /\ pb.state = st

\* how often a sound or a telemetry action was requested by the last step
CountOf(seq, P(_)) == Cardinality({i \in 1..Len(seq) : P(seq[i])})
DamageSounds == CountOf(played, LAMBDA e : e = "damageAudioData")
GameOverSounds == CountOf(played, LAMBDA e : e = "gameOverAudioData")
GameOverLogs == CountOf(logged, LAMBDA e : e.action = "game_over")

(* C1: mode starts as Title and changes only Title->Playing (only in a tick
   with a tap), Playing->GameOver (only in a tick whose player Y after movement
   exceeds screenHeight) and GameOver->Title (only in a tick with a tap); a
   tap in a Playing tick never changes mode by itself. *)
C1_ModeTransitions ==
    /\ pre.op = "main" => mode = ModeTitle
    /\ Ticked /\ p.mode = ModeTitle =>
          /\ mode \in {ModeTitle, ModeGame}
          /\ mode = ModeGame => pre.tapped
    /\ Ticked /\ p.mode = ModeGame =>
          /\ mode \in {ModeGame, ModeGameOver}
          /\ mode = ModeGameOver => birdman.y > screenHeight
          /\ birdman.y <= screenHeight => mode = ModeGame
    /\ Ticked /\ p.mode = ModeGameOver =>
          /\ mode \in {ModeGameOver, ModeTitle}
          /\ mode = ModeTitle => pre.tapped

\* a restart: the three transitions have been taken in turn
C1_Witness ==
    /\ Ticked /\ p.mode = ModeGameOver /\ mode = ModeTitle
    /\ p.birdman.y > screenHeight

(* C2: at most one damage event per tick: damagedCount grows by at most one
   and at most one damage sound is requested, also in a tick whose ceiling
   test (Y < 0) is true while a bird is level with the player in X; a ceiling
   hit is then the only damage of its tick. *)
C2_OneDamagePerTick ==
    Ticked =>
       /\ birdman.damagedCount <= pb.damagedCount + 1
       /\ DamageSounds <= 1
       /\ Began(StateFlying) /\ birdman.y < 0 =>
             /\ birdman.damagedCount = pb.damagedCount + 1
             /\ DamageSounds = 1

\* a ceiling hit with a bird within the collision radius in X (the collision
\* loop ran over a bird it could only miss in Y)
C2_Witness ==
    /\ Began(StateFlying) /\ birdman.y < 0
    /\ birdman.damagedCount = pb.damagedCount + 1
    /\ \E i \in 1..Len(birds) :
          (birds[i].x - birdman.x) * (birds[i].x - birdman.x)
              < birdmanAndBirdCollisionRadius * birdmanAndBirdCollisionRadius

\* the obstacle b of the collection at the start of the last tick is still in it
StillThere(b) == \E j \in 1..Len(birds) : birds[j] = [b EXCEPT !.x = @ - 1]
\* the trailing edge of b was at or behind the camera when the last tick began
Passed(b) == b.x + birdWidth <= p.cameraX

(* C3 as stated: an obstacle whose trailing edge is at or behind the camera at
   the end of a tick is gone at the end of the next Playing tick, whatever the
   sub-state. *)
C3_RetiredByNextTick ==
    Ticked /\ p.mode = ModeGame =>
       \A i \in 1..Len(p.birds) : Passed(p.birds[i]) => ~StillThere(p.birds[i])

(* C3 amended: an obstacle whose trailing edge is at or behind the camera at
   the end of a tick is gone at the end of the next Playing tick that begins
   in sub-state Flying; a Damaged tick drifts the obstacles and retires none. *)
C3_RetiredByNextFlyingTick ==
    /\ Began(StateFlying) =>
          \A i \in 1..Len(p.birds) : Passed(p.birds[i]) => ~StillThere(p.birds[i])
    /\ Began(StateDamaged) =>
          \A i \in 1..Len(p.birds) : StillThere(p.birds[i])

\* a Flying tick has retired an obstacle that had passed the camera before it
C3_Witness ==
    /\ Began(StateFlying)
    /\ \E i \in 1..Len(p.birds) : Passed(p.birds[i]) /\ ~StillThere(p.birds[i])

\* the impulse table of the claim, as magnitudes
BandBase(bx) ==
    IF bx < 1000 THEN 20
    ELSE IF bx < 2000 THEN 15
    ELSE IF bx < 3000 THEN 10
    ELSE IF bx < 4000 THEN 7
    ELSE 5
\* the magnitude of the impulse at world-X bx after n damages
Magnitude(bx, n) == BandBase(bx) \div (n + 1)
Capped(v) == IF v > 5 THEN 5 ELSE v

\* a tap in a Flying tick changes the velocity by -baseImpulse(band)/(N+1),
\* the band taken at the pre-movement X, before gravity and the cap
C4_Applied ==
    Began(StateFlying) /\ pre.tapped =>
       birdman.vy = Capped(pb.vy - Magnitude(pb.x, pb.damagedCount) + 1)

\* the last tick was a damage that left the birdman in the band it was in
DamagedInBand ==
    /\ Began(StateFlying)
    /\ birdman.damagedCount = pb.damagedCount + 1
    /\ BandBase(birdman.x) = BandBase(pb.x)

(* C4 as stated: the applied impulse has magnitude baseImpulse(band)/(N+1),
   and within a band this magnitude is strictly decreasing in the damage
   count N over the counts reached in a run. *)
C4_StrictlyDecreasing ==
    /\ C4_Applied
    /\ DamagedInBand =>
          Magnitude(birdman.x, birdman.damagedCount) < Magnitude(pb.x, pb.damagedCount)

(* C4 amended: the applied impulse has magnitude baseImpulse(band)/(N+1) with
   the division truncating, and within a band this magnitude never increases
   with the damage count N (it stays the same where the quotient does, as
   15/4 = 15/5 = 3). *)
C4_NonIncreasing ==
    /\ C4_Applied
    /\ DamagedInBand =>
          Magnitude(birdman.x, birdman.damagedCount) <= Magnitude(pb.x, pb.damagedCount)

\* a tap of a damaged birdman in the last band, where 5/2 truncates to 2
C4_Witness ==
    /\ Began(StateFlying) /\ pre.tapped
    /\ pb.x >= 4000 /\ pb.damagedCount = 1
    /\ birdman.vy = pb.vy - 2 + 1

(* C5: verticalVelocity <= 5 in every reachable state, and a Flying tick adds
   the impulse of its tap, then exactly 1 for gravity, and then applies the cap. *)
C5_VelocityCap ==
    /\ birdman.vy <= 5
    /\ Began(StateFlying) =>
          birdman.vy = Capped(pb.vy
                              - (IF pre.tapped THEN Magnitude(pb.x, pb.damagedCount) ELSE 0)
                              + 1)

\* a Flying tick at full speed: gravity would have made 6 of it
C5_Witness == Began(StateFlying) /\ ~pre.tapped /\ pb.vy = 5 /\ birdman.vy = 5

(* C6: the Damaged sub-state is entered with damagedTicks = 0, every Damaged
   tick adds one to it, and the 60th Damaged tick (no earlier one, and no
   later one) ends it with sub-state Flying, damagedTicks = 0 and velocity 0. *)
C6_DamagedOneSecond ==
    /\ Began(StateFlying) /\ birdman.state = StateDamaged => birdman.damagedTicks = 0
    /\ birdman.state = StateDamaged => birdman.damagedTicks \in 0..59
    /\ Began(StateDamaged) =>
          IF pb.damagedTicks + 1 = 60
          THEN birdman.state = StateFlying /\ birdman.damagedTicks = 0 /\ birdman.vy = 0
          ELSE birdman.state = StateDamaged /\ birdman.damagedTicks = pb.damagedTicks + 1

\* the 60th Damaged tick has returned the birdman to Flying
C6_Witness ==
    /\ Began(StateDamaged) /\ pb.damagedTicks = 59
    /\ mode = ModeGame /\ birdman.state = StateFlying

(* C7: a Playing tick whose Y after movement exceeds screenHeight sets mode to
   GameOver and requests exactly one game_over event, with the X and the
   damage count of the birdman at that moment, and exactly one game-over
   sound; any other tick leaves mode Playing and requests neither. *)
C7_GameOverOnce ==
    /\ Ticked /\ p.mode = ModeGame =>
          IF birdman.y > screenHeight
          THEN /\ mode = ModeGameOver
               /\ logged = <<[action |-> "game_over", x |-> birdman.x,
                              damaged_count |-> birdman.damagedCount, count |-> 0]>>
               /\ GameOverSounds = 1
          ELSE /\ mode = ModeGame
               /\ GameOverLogs = 0
               /\ GameOverSounds = 0
    /\ ~(Ticked /\ p.mode = ModeGame) => GameOverLogs = 0 /\ GameOverSounds = 0

\* the birdman has fallen below the screen while Damaged
C7_Witness == Began(StateDamaged) /\ mode = ModeGameOver /\ birdman.y > screenHeight

\* the start-of-run values of the claim, with the given counter
StartOfRun(count) ==
    [initializeCount |-> count, mode |-> ModeTitle,
     birdman |-> [state |-> StateRunning, x |-> -60, y |-> screenHeight \div 3, vy |-> 0,
                  damagedCount |-> 0, damagedTicks |-> 0],
     birds |-> <<>>, cameraX |-> -100, cameraY |-> 0]
\* the last step ran initialize
Initialized == pre.op = "main" \/ (Ticked /\ p.mode = ModeGameOver /\ pre.tapped)

(* C8: initialize() sets the start-of-run values whatever the state before,
   run twice in a row it gives the same state but for a counter one greater,
   and the counter grows by exactly one per initialize, is carried by the
   initialize event and never decreases. *)
C8_Initialize ==
    /\ Initialized =>
          /\ G = StartOfRun(p.initializeCount + 1)
          /\ logged = <<[action |-> "initialize", x |-> 0, damaged_count |-> 0,
                         count |-> initializeCount]>>
    /\ initialize(G) = StartOfRun(initializeCount + 1)
    /\ initialize(initialize(G)) = [initialize(G) EXCEPT !.initializeCount = @ + 1]
    /\ Ticked /\ ~Initialized =>
          /\ initializeCount = p.initializeCount
          /\ \A i \in 1..Len(logged) : logged[i].action # "initialize"

\* a restart out of a run that had birds and damage
C8_Witness ==
    /\ Ticked /\ p.mode = ModeGameOver /\ pre.tapped
    /\ Len(p.birds) > 0 /\ pb.damagedCount > 0
    /\ initializeCount = 2

(* C9: a tick that begins in mode Title, or in mode GameOver without a tap,
   leaves the birdman, the birds and the camera as they were and requests no
   sound. *)
C9_NoPhysicsOutsidePlaying ==
    Ticked /\ (p.mode = ModeTitle \/ (p.mode = ModeGameOver /\ ~pre.tapped)) =>
       /\ birdman = pb
       /\ birds = p.birds
       /\ cameraX = p.cameraX
       /\ cameraY = p.cameraY
       /\ played = <<>>

\* a tap in Title at the edge of the cliff
C9_Witness ==
    /\ Ticked /\ p.mode = ModeTitle /\ pre.tapped /\ mode = ModeGame
    /\ birdman.x = -60

(* C10: damagedCount changes only in a tick that begins in Playing and Flying,
   where it grows by one and the sub-state becomes Damaged; it never
   decreases within a run, and only initialize sets it back to 0 for the
   next run. *)
C10_DamageOnlyWhileFlying ==
    Ticked =>
       /\ birdman.damagedCount # pb.damagedCount /\ ~Initialized =>
             /\ Began(StateFlying)
             /\ birdman.damagedCount = pb.damagedCount + 1
             /\ birdman.state = StateDamaged
       /\ ~Initialized => birdman.damagedCount >= pb.damagedCount
       /\ Initialized => birdman.damagedCount = 0

\* a damage of a birdman that had been damaged before
C10_Witness ==
    /\ Began(StateFlying) /\ pb.damagedCount >= 1
    /\ birdman.damagedCount = pb.damagedCount + 1
    /\ birdman.state = StateDamaged

\* the start_game events requested by the last tick
StartGameLogs == Cardinality({i \in 1..Len(logged) : logged[i].action = "start_game"})

(* C11: a tick that begins in mode Title with a tap sets mode to Playing and
   requests exactly one start_game event; without a tap it leaves mode Title
   and requests nothing; no other tick requests a start_game event, so each
   run has exactly one, in the tick that takes it from Title to Playing. *)
C11_StartGameOnce ==
    /\ Ticked /\ p.mode = ModeTitle =>
          IF pre.tapped
          THEN /\ mode = ModeGame
               /\ logged = <<[action |-> "start_game", x |-> 0, damaged_count |-> 0,
                              count |-> 0]>>
          ELSE /\ mode = ModeTitle
               /\ logged = <<>>
    /\ StartGameLogs = IF Ticked /\ p.mode = ModeTitle /\ mode = ModeGame THEN 1 ELSE 0

\* the tap that starts the second run
C11_Witness ==
    /\ Ticked /\ p.mode = ModeTitle /\ pre.tapped
    /\ initializeCount = 2 /\ StartGameLogs = 1

(* C12: in a Flying tick with a tap the impulse -(baseImpulse(band)/(N+1)) is
   applied before gravity and the velocity after the tick is
   min(5, velocity before + impulse + 1); for a birdman at X = 500 with
   damagedCount = 1 the tap takes 10 off the velocity and the tick 9,
   whatever the velocity before. *)
C12_TapThenGravity ==
    /\ Began(StateFlying) /\ pre.tapped =>
          LET impulse == 0 - BandBase(pb.x) \div (pb.damagedCount + 1) IN
          birdman.vy = Capped(pb.vy + impulse + 1)
    /\ Began(StateFlying) /\ pre.tapped /\ pb.x = 500 /\ pb.damagedCount = 1 =>
          /\ FlapImpulse(pb.x, pb.damagedCount) = -10
          /\ birdman.vy = pb.vy - 9

\* the scenario: a tap at X = 500 after one damage, while already rising
C12_Witness ==
    /\ Began(StateFlying) /\ pre.tapped
    /\ pb.x = 500 /\ pb.damagedCount = 1 /\ pb.vy < 0
    /\ birdman.vy = pb.vy - 9

(* C13 as stated: in every Playing tick cameraX grows by exactly 1 when the
   sub-state at the start of the tick is Flying or Damaged and is unchanged
   when it is Running; cameraY never changes. *)
C13_CameraAdvancesAirborne ==
    /\ Ticked /\ p.mode = ModeGame =>
          cameraX = p.cameraX + (IF pb.state # StateRunning THEN 1 ELSE 0)
    /\ Ticked => cameraY = p.cameraY

(* C13 amended: in every Playing tick cameraX grows by exactly 1 when the
   sub-state at the start of the tick is Flying and is unchanged when it is
   Running or Damaged; cameraY never changes. *)
C13_CameraAdvancesFlying ==
    /\ Ticked /\ p.mode = ModeGame =>
          cameraX = p.cameraX + (IF pb.state = StateFlying THEN 1 ELSE 0)
    /\ Ticked => cameraY = p.cameraY

\* a Damaged tick in the middle of its second has left the camera where it was,
\* after Flying ticks that moved it
C13_Witness ==
    /\ Began(StateDamaged) /\ mode = ModeGame
    /\ birdman.damagedTicks = 30
    /\ cameraX = p.cameraX /\ cameraX > 0

\* the last tick had a damage event
DamageEvent == birdman.damagedCount > pb.damagedCount

(* C14: within a run the sub-state changes only from Running to Flying, in
   exactly the Running tick in which X reaches >= 0, from Flying to Damaged,
   only in a tick with a damage event, and from Damaged to Flying, only on
   the Damaged timeout; nothing goes back to Running but initialize; and
   in every reachable state Running implies X < 0 while Flying and Damaged
   imply X >= 0. *)
C14_SubStateTransitions ==
    /\ birdman.state = StateRunning => birdman.x < 0
    /\ birdman.state \in {StateFlying, StateDamaged} => birdman.x >= 0
    /\ Ticked /\ ~Initialized =>
          /\ Began(StateRunning) =>
                birdman.state = (IF birdman.x >= 0 THEN StateFlying ELSE StateRunning)
          /\ Began(StateFlying) =>
                birdman.state = (IF DamageEvent THEN StateDamaged ELSE StateFlying)
          /\ Began(StateDamaged) =>
                birdman.state = (IF pb.damagedTicks + 1 = 60 THEN StateFlying ELSE StateDamaged)
          /\ ~(p.mode = ModeGame) => birdman.state = pb.state
    /\ Ticked /\ birdman.state = StateRunning /\ pb.state # StateRunning => Initialized

\* the Running tick that reaches the edge of the cliff
C14_Witness ==
    /\ Began(StateRunning) /\ pb.x = -1
    /\ birdman.x = 0 /\ birdman.state = StateFlying

\* b was in the collection when the last tick began, one further to the right
WasThere(b) == \E j \in 1..Len(p.birds) : p.birds[j] = [x |-> b.x + 1, y |-> b.y]
\* the places in the collection of the birds the last tick added
Added == {i \in 1..Len(birds) : ~WasThere(birds[i])}
\* the multiples of 200 in from..to
Multiples(from, to) == Cardinality({m \in from..to : m % 200 = 0})

\* a bird is added in a tick if and only if the tick begins in Playing and
\* Flying with the pre-movement X a multiple of 200; the bird appears at
\* X + screenWidth before its drift of the tick, with Y in [50, screenHeight - 50),
\* and the Y of a bird never changes; none is added in a Running or Damaged tick
C15_SpawnTick ==
    /\ Ticked /\ p.mode = ModeGame =>
          IF pb.state = StateFlying /\ pb.x % 200 = 0
          THEN /\ Added = {Len(birds)}
               /\ birds[Len(birds)].x + 1 = pb.x + screenWidth
               /\ birds[Len(birds)].y \in 50..(screenHeight - 50 - 1)
          ELSE Added = {}
    /\ Ticked /\ p.mode # ModeGame /\ ~Initialized => birds = p.birds

(* C15 as stated: the spawn happens in exactly the Flying ticks that begin at
   a multiple of 200, and every multiple of 200 the birdman reaches in a run
   has had exactly one spawn when the run is over. *)
C15_EveryMultipleReached ==
    /\ C15_SpawnTick
    /\ spawned >= Multiples(0, birdman.x - 1)
    /\ mode = ModeGameOver => spawned = Multiples(0, birdman.x)

(* C15 amended: the spawn happens in exactly the Flying ticks that begin at a
   multiple of 200, so every multiple of 200 at which a Flying tick begins has
   exactly one spawn, also after Damaged interludes; a multiple reached by
   the tick that ends the run has none. *)
C15_EveryMultipleBegun ==
    /\ C15_SpawnTick
    /\ spawned = Multiples(0, birdman.x - 1)

\* the third spawn of a flight that Damaged interludes have interrupted
C15_Witness ==
    /\ Began(StateFlying) /\ pb.x = 400 /\ pb.damagedCount >= 1
    /\ spawned = 3 /\ Added = {Len(birds)}

\* the birds whose centre is strictly within 50 of the birdman's, after the
\* drift and the move of the last tick
Within50 ==
    {i \in 1..Len(birds) :
        (birdman.x - birds[i].x) * (birdman.x - birds[i].x)
        + (birdman.y - birds[i].y) * (birdman.y - birds[i].y) < 50 * 50}

(* C16: in a Flying tick without a ceiling violation there is a collision
   damage if and only if, after the tick's drift and move, some bird's centre
   is strictly within 50 of the birdman's centre; the damage is one damage
   (damagedCount + 1, one damage sound, sub-state Damaged) however many
   birds are within the radius. *)
C16_CollisionWithinRadius ==
    Began(StateFlying) /\ birdman.y >= 0 =>
       IF Within50 # {}
       THEN /\ birdman.damagedCount = pb.damagedCount + 1
            /\ DamageSounds = 1
            /\ birdman.state = StateDamaged
       ELSE /\ birdman.damagedCount = pb.damagedCount
            /\ DamageSounds = 0
            /\ birdman.state = StateFlying

\* a collision with the bird that is just within the radius: 48 ahead and at
\* most 13 above or below
C16_Witness ==
    /\ Began(StateFlying) /\ birdman.y >= 0
    /\ birdman.damagedCount = pb.damagedCount + 1
    /\ \E i \in Within50 : birds[i].x - birdman.x = 48

(* C17: a Playing tick that begins in sub-state Damaged moves every bird by
   -1 and adds none, sets the velocity to 0 and adds exactly 1 to Y, leaves
   X and damagedCount as they were and adds one to damagedTicks (the 60th
   such tick then sets it back to 0, on leaving Damaged); a tap in that tick
   changes nothing of this and requests no flap sound. *)
C17_DamagedTick ==
    Began(StateDamaged) =>
       /\ Len(birds) = Len(p.birds)
       /\ \A i \in 1..Len(birds) :
             birds[i].x = p.birds[i].x - 1 /\ birds[i].y = p.birds[i].y
       /\ birdman.vy = 0
       /\ birdman.y = pb.y + 1
       /\ birdman.x = pb.x
       /\ birdman.damagedCount = pb.damagedCount
       /\ birdman.damagedTicks = (pb.damagedTicks + 1) % 60
       /\ \A i \in 1..Len(played) : played[i] # "flyingAudioData"

\* a tapped Damaged tick of a birdman that was rising when it was damaged
C17_Witness ==
    /\ Began(StateDamaged) /\ pre.tapped
    /\ pb.vy < 0 /\ birdman.vy = 0
    /\ Len(birds) >= 1

(* C18: the collection is always in spawn order: the X of the birds is
   strictly increasing along it, a tick adds a bird only at the end, and the
   birds that survive a tick are in the order they were in before it. *)
C18_SpawnOrder ==
    /\ \A i, j \in 1..Len(birds) : i < j => birds[i].x < birds[j].x
    /\ Ticked /\ p.mode = ModeGame =>
          /\ Added \subseteq {Len(birds)}
          /\ \A i, j \in 1..Len(birds) : \A a, b \in 1..Len(p.birds) :
                /\ i < j
                /\ p.birds[a] = [x |-> birds[i].x + 1, y |-> birds[i].y]
                /\ p.birds[b] = [x |-> birds[j].x + 1, y |-> birds[j].y]
                => a < b

\* a Flying tick that retired the oldest bird and kept two younger ones
C18_Witness ==
    /\ Began(StateFlying)
    /\ Len(p.birds) = 3 /\ Len(birds) = 2
    /\ birds[1].x = p.birds[2].x - 1 /\ birds[2].x = p.birds[3].x - 1

(* C19: damagedTicks is 0 whenever the sub-state is not Damaged and in 0..59
   whenever it is Damaged, and it changes only in a tick that begins in
   Playing and Damaged, or when initialize sets it to 0. *)
C19_DamagedTicksOnlyWhileDamaged ==
    /\ birdman.state # StateDamaged => birdman.damagedTicks = 0
    /\ birdman.state = StateDamaged => 0 <= birdman.damagedTicks /\ birdman.damagedTicks < 60
    /\ Ticked /\ birdman.damagedTicks # pb.damagedTicks =>
          \/ Began(StateDamaged)
          \/ Initialized /\ birdman.damagedTicks = 0

\* a restart out of a run that ended in the middle of a Damaged second
C19_Witness ==
    /\ Ticked /\ p.mode = ModeGameOver /\ pre.tapped
    /\ pb.state = StateDamaged /\ pb.damagedTicks > 0
    /\ birdman.damagedTicks = 0

(* C20: the camera is locked to the birdman once it flies: x - cameraX = 100
   whenever the sub-state is Flying or Damaged; while Running cameraX = -100
   and 40 <= x - cameraX <= 100. *)
C20_CameraLock ==
    /\ birdman.state \in {StateFlying, StateDamaged} => birdman.x - cameraX = 100
    /\ birdman.state = StateRunning =>
          /\ cameraX = -100
          /\ 40 <= birdman.x - cameraX /\ birdman.x - cameraX <= 100

\* back in Flying after a Damaged second beyond the first bird's appearance
C20_Witness ==
    /\ Began(StateDamaged) /\ birdman.state = StateFlying
    /\ birdman.x > 200 /\ birdman.x - cameraX = 100

(* C21: with screenWidth = 640, birdWidth = 100 and a bird appearing every 200
   of world-X, the collection holds at most 3 birds in every reachable state,
   whatever the taps and the heights drawn. *)
C21_AtMostThreeBirds == Len(birds) <= 3

\* the fourth bird has made the collection three, and this Flying tick has
\* retired the oldest of them
C21_Witness ==
    /\ Began(StateFlying) /\ spawned = 4
    /\ Len(p.birds) = 3 /\ Len(birds) = 2

(* C22: from any state in mode Playing, if ticks keep coming and the player
   never taps again, mode eventually becomes GameOver, whatever the heights
   of the birds and however many collisions there are on the way down. *)
C22_FallsWhenNotFlapping == (mode = ModeGame /\ ~flapping) ~> (mode = ModeGameOver)

\* a player that never tapped since the flight was resumed undamaged has
\* collided on the way down and fallen below the screen
C22_Witness ==
    /\ mode = ModeGameOver /\ ~flapping
    /\ birdman.x < 990 /\ birdman.damagedCount >= 1
    /\ birdman.y > screenHeight


================================================================
